---- MODULE Spec2Model ----
(***************************************************************************)
(* Model of src/task.py: a client directory kept in two PostgreSQL tables  *)
(* (client, phone_number).  Every function of the module is one action: it *)
(* runs its SQL statements against the tables and either returns a value   *)
(* or raises.                                                              *)
(*                                                                         *)
(* The store is modelled by what the DDL of create_database asks of it:    *)
(* SERIAL primary keys, UNIQUE on client.email, the foreign key of         *)
(* phone_number.client_id.  A statement that violates a constraint raises  *)
(* and changes no row; the SERIAL sequence it drew from stays advanced.    *)
(* The functions never commit or roll back; the tables are the ones the    *)
(* cursor sees, each statement taking effect on its own.                   *)
(*                                                                         *)
(* Strings are tuples of one-character strings so that the regular         *)
(* expression match of find_client can be computed.  Callers pass strings  *)
(* that fit the VARCHAR widths of the columns.                             *)
(*                                                                         *)
(* ret records the outcome of the last call.  issued and deleted are       *)
(* history: the ids add_client has returned, in order, and the ids         *)
(* delete_client has returned.                                             *)
(***************************************************************************)
EXTENDS Integers, Sequences, FiniteSets, TLC

VARIABLES client, phone, client_seq, phone_seq, ret, issued, deleted

vars == <<client, phone, client_seq, phone_seq, ret, issued, deleted>>

\* ---------------------------------------------------------------- bounds
\* Highest value the client id sequence may reach.
MaxClientSeq == 2
\* Highest value the phone id sequence may reach.
MaxPhoneSeq == 2

\* ---------------------------------------------------------------- inputs
EMPTY == <<>>
\* Values callers pass for first_name, last_name and email.
Str == {EMPTY, <<"A", "s">>}
\* Values callers pass for a phone number.
Numbers == {<<"3">>, <<"1", "3">>}
\* Values callers pass in the data of update_client.
NewStr == {EMPTY}
\* Patterns callers pass to find_client for each search key.
Patterns(key) ==
    IF key = "number" THEN {<<"^", "3">>} ELSE {<<"a">>}
\* Ids callers pass: every id the client sequence can produce.
ClientIds == 1..MaxClientSeq

\* The SQL NULL of an outer join's missing side: a value no string equals.
NULL == <<"NULL">>
\* Python's None where an id is expected.
NONE == 0

ClientKeys == <<"first_name", "last_name", "email">>
SearchKeys == {"first_name", "last_name", "email", "number"}

\* ------------------------------------------------------------ the store
\* CREATE TABLE client: id SERIAL PRIMARY KEY.
PrimaryKeyOk(rows, id) == \A r \in rows : r.id # id

\* CREATE TABLE client: email VARCHAR(100) UNIQUE.  The empty string is a
\* value like any other; only NULL is exempt from UNIQUE.  self is the id of
\* the row being written (NONE for an insert).
UniqueUpdateUnchecked(rows, email, self) ==
    self # NONE \/ \A r \in rows : r.email # email

UniqueOk(rows, email, self) ==
    \A r \in rows : r.id # self => r.email # email

\* CREATE TABLE phone_number: client_id INTEGER NOT NULL REFERENCES client(id).
FkUnchecked(rows, client_id) == TRUE

FkOk(rows, client_id) == \E r \in rows : r.id = client_id

\* The same constraint seen from the referenced side: a client row that a
\* phone row references cannot be deleted.
FkRestrictOk(phones, id) == \A p \in phones : p.client_id # id

\* SERIAL: nextval of the column's sequence.
NextValStuck(seq) == IF seq = 0 THEN 1 ELSE seq

NextVal(seq) == seq + 1

\* cur.fetchone()[0]: fetchone() is None when the statement returned no row,
\* and subscripting None raises TypeError.
HasRow(rows) == rows # {}

\* What the last call did: the function, how it ended ("ok" or the exception
\* raised), the id it returned (NONE if it raised) and, for find_client, the
\* ids of the list it returned.
Reply(op, status, id, ids) ==
    [op |-> op, status |-> status, id |-> id, ids |-> ids]

Init ==
    /\ client = {}
    /\ phone = {}
    /\ client_seq = 0
    /\ phone_seq = 0
    /\ ret = Reply("create_database", "ok", NONE, {})
    /\ issued = <<>>
    /\ deleted = {}

\* create_database: CREATE TABLE IF NOT EXISTS on both tables.
create_database ==
    /\ ret' = Reply("create_database", "ok", NONE, {})
    /\ UNCHANGED <<client, phone, client_seq, phone_seq, issued, deleted>>

\* add_client(cur, first_name, last_name, email)
add_client(first_name, last_name, email) ==
    LET id == NextVal(client_seq)
    IN  /\ client_seq < MaxClientSeq
        /\ client_seq' = id
        /\ IF PrimaryKeyOk(client, id) /\ UniqueOk(client, email, NONE)
           THEN /\ client' = client \cup
                      {[id |-> id, first_name |-> first_name,
                        last_name |-> last_name, email |-> email]}
                /\ ret' = Reply("add_client", "ok", id, {})
                /\ issued' = Append(issued, id)
           ELSE /\ ret' = Reply("add_client", "UniqueViolation", NONE, {})
                /\ UNCHANGED <<client, issued>>
        /\ UNCHANGED <<phone, phone_seq, deleted>>

\* add_phone(cur, client_id, phone)
add_phone(client_id, number) ==
    LET id == NextVal(phone_seq)
    IN  /\ phone_seq < MaxPhoneSeq
        /\ phone_seq' = id
        /\ IF ~PrimaryKeyOk(phone, id)
           THEN /\ phone' = phone
                /\ ret' = Reply("add_phone", "UniqueViolation", NONE, {})
           ELSE IF ~FkOk(client, client_id)
           THEN /\ phone' = phone
                /\ ret' = Reply("add_phone", "ForeignKeyViolation", NONE, {})
           ELSE /\ phone' = phone \cup
                      {[id |-> id, client_id |-> client_id, number |-> number]}
                /\ ret' = Reply("add_phone", "ok", id, {})
        /\ UNCHANGED <<client, client_seq, issued, deleted>>

\* A dict is a sequence of <<key, value>> pairs in insertion order.
Keys(data) == {data[i][1] : i \in DOMAIN data}

\* dict.setdefault(key, value): a missing key is appended at the end.
SetDefault(data, key, value) ==
    IF key \in Keys(data) THEN data ELSE Append(data, <<key, value>>)

\* dict.values(): the values in insertion order.
Values(data) == [i \in DOMAIN data |-> data[i][2]]

\* The loop of update_client over zip(keys, row): setdefault of each column
\* of the row that was read, in the order first_name, last_name, email.
RECURSIVE Merge(_, _, _)
Merge(data, row, i) ==
    IF i > Len(ClientKeys) THEN data
    ELSE Merge(SetDefault(data, ClientKeys[i], row[ClientKeys[i]]), row, i + 1)

\* update_client(cur, id, data)
update_client(id, data) ==
    LET rows == {c \in client : c.id = id}
    IN  /\ IF rows = {}
           THEN \* zip yields 1-tuples; "for key, value in" raises ValueError
                /\ ret' = Reply("update_client", "ValueError", NONE, {})
                /\ client' = client
           ELSE LET row == CHOOSE c \in rows : TRUE
                    params == Values(Merge(data, row, 1))
                    new == [id |-> id, first_name |-> params[1],
                            last_name |-> params[2], email |-> params[3]]
                IN  IF UniqueOk(client, new.email, id)
                    THEN /\ client' = (client \ rows) \cup {new}
                         /\ ret' = Reply("update_client", "ok", id, {})
                    ELSE /\ client' = client
                         /\ ret' = Reply("update_client", "UniqueViolation", NONE, {})
        /\ UNCHANGED <<phone, client_seq, phone_seq, issued, deleted>>

\* DELETE FROM phone_number WHERE client_id = %s AND number = %s
PhoneMatchesAnyClient(p, client_id, number) == p.number = number

PhoneMatchesAnyNumber(p, client_id, number) == p.client_id = client_id

PhoneMatches(p, client_id, number) ==
    p.client_id = client_id /\ p.number = number

\* delete_phone(cur, client_id, phone)
delete_phone(client_id, number) ==
    LET gone == {p \in phone : PhoneMatches(p, client_id, number)}
    IN  /\ phone' = phone \ gone
        /\ IF HasRow(gone)
           THEN \* the first row of RETURNING id: any of the deleted rows
                \E id \in {p.id : p \in gone} :
                    ret' = Reply("delete_phone", "ok", id, {})
           ELSE ret' = Reply("delete_phone", "TypeError", NONE, {})
        /\ UNCHANGED <<client, client_seq, phone_seq, issued, deleted>>

\* DELETE FROM phone_number WHERE client_id = %s
KeepPhones(phones, id) == phones

DeletePhonesOf(phones, id) == {p \in phones : p.client_id # id}

\* delete_client(cur, id)
delete_client(id) ==
    LET phones1 == DeletePhonesOf(phone, id)
        gone == {c \in client : c.id = id}
    IN  /\ phone' = phones1
        /\ IF gone # {} /\ ~FkRestrictOk(phones1, id)
           THEN /\ client' = client
                /\ ret' = Reply("delete_client", "ForeignKeyViolation", NONE, {})
                /\ deleted' = deleted
           ELSE /\ client' = client \ gone
                /\ IF HasRow(gone)
                   THEN /\ ret' = Reply("delete_client", "ok", id, {})
                        /\ deleted' = deleted \cup {c.id : c \in gone}
                   ELSE /\ ret' = Reply("delete_client", "TypeError",
                                        NONE, {})
                        /\ deleted' = deleted
        /\ UNCHANGED <<client_seq, phone_seq, issued>>

\* Case folding of the case-insensitive match.
Fold(c) ==
    CASE c = "A" -> "a"
      [] c = "B" -> "b"
      [] c = "S" -> "s"
      [] OTHER -> c

\* Does pat, a sequence of atoms (a literal character, or "." for any
\* character), match s at position i?
MatchAt(s, pat, i) ==
    \A j \in 1..Len(pat) :
        /\ i + j - 1 <= Len(s)
        /\ pat[j] = "." \/ Fold(pat[j]) = Fold(s[i + j - 1])

\* value ~* pat: case-insensitive regular expression match anywhere in the
\* value, or at its start when the pattern begins with "^".  NULL matches
\* nothing.
Match(value, pat) ==
    /\ value # NULL
    /\ IF pat # <<>> /\ Head(pat) = "^"
       THEN MatchAt(value, Tail(pat), 1)
       ELSE \E i \in 1..(Len(value) + 1) : MatchAt(value, pat, i)

\* FROM client c LEFT JOIN phone_number p ON p.client_id = c.id: one row per
\* phone of the client, and one row with NULL phone columns for a client
\* that has none.
InnerJoin(clients, phones) ==
    UNION {{[id |-> c.id, first_name |-> c.first_name,
              last_name |-> c.last_name, email |-> c.email,
              number |-> p.number] :
                p \in {q \in phones : q.client_id = c.id}} : c \in clients}

JoinWithoutOuter(clients, phones) == InnerJoin(clients, phones)

LeftJoin(clients, phones) ==
    InnerJoin(clients, phones) \cup
    {[id |-> c.id, first_name |-> c.first_name, last_name |-> c.last_name,
      email |-> c.email, number |-> NULL] :
        c \in {d \in clients : \A q \in phones : q.client_id # d.id}}

\* SELECT DISTINCT c.id ... WHERE key ~* value
SelectIds(joined, key, value) ==
    {r.id : r \in {j \in joined : Match(j[key], value)}}

\* set.intersection(*id_sets)
Intersection(id_sets) ==
    {x \in UNION id_sets : \A s \in id_sets : x \in s}

\* The body of find_client: one SELECT per key of the request, then the
\* intersection of the id sets.
FindResult(request) ==
    LET joined == LeftJoin(client, phone)
        id_sets == {SelectIds(joined, k, request[k]) : k \in DOMAIN request}
    IN  Intersection(id_sets)

\* find_client(cur, request); request maps some of the search keys to
\* patterns.  With no key, set.intersection() has no argument and raises.
find_client(request) ==
    /\ IF DOMAIN request = {}
       THEN ret' = Reply("find_client", "TypeError", NONE, {})
       ELSE ret' = Reply("find_client", "ok", NONE, FindResult(request))
    /\ UNCHANGED <<client, phone, client_seq, phone_seq, issued, deleted>>

\* The dicts callers pass to update_client: any keys of the client columns
\* in any order.
RECURSIVE DictsOver(_, _)
DictsOver(keys, n) ==
    IF n = 0 THEN {<<>>}
    ELSE LET shorter == DictsOver(keys, n - 1)
         IN  shorter \cup
             {Append(d, <<k, v>>) :
                 d \in {e \in shorter : Len(e) = n - 1},
                 k \in keys, v \in NewStr}

UpdateData ==
    {d \in DictsOver({ClientKeys[i] : i \in DOMAIN ClientKeys}, 3) :
        Cardinality(Keys(d)) = Len(d)}

\* The requests callers pass to find_client.
Requests ==
    UNION {{r \in [keys -> UNION {Patterns(k) : k \in SearchKeys}] :
               \A k \in keys : r[k] \in Patterns(k)} :
           keys \in SUBSET SearchKeys}

Next ==
    \/ create_database
    \/ \E fn \in Str, ln \in Str, em \in Str : add_client(fn, ln, em)
    \/ \E id \in ClientIds, n \in Numbers : add_phone(id, n)
    \/ \E id \in ClientIds, d \in UpdateData : update_client(id, d)
    \/ \E id \in ClientIds, n \in Numbers : delete_phone(id, n)
    \/ \E id \in ClientIds : delete_client(id)
    \/ \E request \in Requests : find_client(request)

Spec == Init /\ [][Next]_vars

\* ---------------------------------------------------------- properties
Failed == ret'.status # "ok" /\ ret'.id = NONE
TablesSame == client' = client /\ phone' = phone
HasClient(id) == \E c \in client : c.id = id
RowOf(rows, id) == CHOOSE c \in rows : c.id = id
\* The value a dict holds for a key.
Lookup(data, key) == data[CHOOSE i \in DOMAIN data : data[i][1] = key][2]

\* C1: a successful update_client(id, data) with a non-empty data over the
\* client columns, in any key order, leaves each supplied column holding the
\* supplied value and each omitted column holding its value from before.
C1_PartialUpdate ==
    [][\A id \in ClientIds, data \in UpdateData \ {<<>>} :
          (ret'.op = "update_client" /\ ret'.status = "ok" /\ HasClient(id)
             /\ update_client(id, data))
          => /\ \E new \in client' : new.id = id
             /\ \A i \in DOMAIN ClientKeys :
                   RowOf(client', id)[ClientKeys[i]] =
                       IF ClientKeys[i] \in Keys(data)
                       THEN Lookup(data, ClientKeys[i])
                       ELSE RowOf(client, id)[ClientKeys[i]]]_vars

\* C2: every phone row references the id of a row currently in client.
C2_ReferentialIntegrity ==
    \A p \in phone : \E c \in client : c.id = p.client_id

C2_Witness ==
    /\ ret.op = "delete_client" /\ ret.status = "ok"
    /\ deleted # {} /\ phone # {} /\ phone_seq > Cardinality(phone)

\* C3: no two distinct client rows share the same non-empty email.
C3_EmailUnique ==
    \A c \in client, d \in client :
        (c.id # d.id /\ c.email # EMPTY) => c.email # d.email

C3_Witness ==
    /\ ret.op = "update_client" /\ ret.status = "UniqueViolation"
    /\ \E c \in client, d \in client :
          c.id # d.id /\ c.email # EMPTY /\ d.email = EMPTY

\* C4: when a client with the empty email exists, add_client with the empty
\* email inserts one more row and returns its new id.
C4_SecondEmptyEmail ==
    [][\A fn \in Str, ln \in Str :
          (ret'.op = "add_client" /\ (\E c \in client : c.email = EMPTY)
             /\ add_client(fn, ln, EMPTY))
          => /\ ret'.status = "ok"
             /\ ~HasClient(ret'.id)
             /\ client' = client \cup
                   {[id |-> ret'.id, first_name |-> fn, last_name |-> ln,
                     email |-> EMPTY]}]_vars

\* C5: delete_client(id) of an existing client removes that client's row and
\* the phone rows whose client_id is id, returns id, and leaves every other
\* client row and phone row as it was.
C5_DeleteClient ==
    [][\A id \in ClientIds :
          (ret'.op = "delete_client" /\ HasClient(id) /\ delete_client(id))
          => /\ ret'.status = "ok" /\ ret'.id = id
             /\ client' = {c \in client : c.id # id}
             /\ phone' = {p \in phone : p.client_id # id}]_vars

C5_Witness ==
    /\ ret.op = "delete_client" /\ ret.status = "ok"
    /\ ret.id \notin {c.id : c \in client}
    /\ client # {} /\ phone # {} /\ phone_seq > Cardinality(phone)

\* Does client c satisfy every criterion of the request?
Satisfies(c, request) ==
    \A k \in DOMAIN request :
        IF k = "number"
        THEN \E p \in phone : p.client_id = c.id /\ Match(p.number, request[k])
        ELSE Match(c[k], request[k])

\* C6: find_client with a non-empty request returns exactly the ids of the
\* clients that satisfy every criterion (a number criterion by one of the
\* client's phones), and changes no table.
C6_FindClient ==
    /\ [](\A request \in Requests :
            DOMAIN request # {} =>
                FindResult(request) =
                    {c.id : c \in {d \in client : Satisfies(d, request)}})
    /\ []((ret.op = "find_client" /\ ret.status = "ok") =>
            \E request \in Requests :
                /\ DOMAIN request # {}
                /\ ret.ids = {c.id : c \in {d \in client :
                                               Satisfies(d, request)}})
    /\ [][ret'.op = "find_client" => TablesSame]_vars

C6_Witness ==
    /\ ret.op = "find_client" /\ ret.status = "ok" /\ ret.ids # {}
    /\ phone # {}
    /\ \E c \in client :
          /\ c.id \notin ret.ids
          /\ \A p \in phone : p.client_id # c.id
          /\ Match(c.first_name, <<"a">>)

\* C7: add_client with a non-empty email that a client holds raises the
\* uniqueness error, add_phone with a client_id no client has raises the
\* foreign-key error, and neither changes a table.
C7_RejectedInsert ==
    [][/\ \A fn \in Str, ln \in Str, em \in Str \ {EMPTY} :
             (ret'.op = "add_client" /\ (\E c \in client : c.email = em)
                /\ add_client(fn, ln, em))
             => ret'.status = "UniqueViolation" /\ Failed /\ TablesSame
       /\ \A id \in ClientIds, n \in Numbers :
             (ret'.op = "add_phone" /\ ~HasClient(id) /\ add_phone(id, n))
             => ret'.status = "ForeignKeyViolation" /\ Failed /\ TablesSame]_vars

C7_Witness ==
    /\ ret.op = "add_client" /\ ret.status = "UniqueViolation"
    /\ \A c \in client : c.email # EMPTY
    /\ client # {} /\ phone # {} /\ phone_seq > Cardinality(phone)

\* C8: update_client and delete_client with an id no client has, and
\* delete_phone with a (client_id, number) no phone row has, fail, return no
\* id, and change no table.
C8_MissingTarget ==
    [][/\ \A id \in ClientIds, data \in UpdateData :
             (ret'.op = "update_client" /\ ~HasClient(id)
                /\ update_client(id, data))
             => Failed /\ TablesSame
       /\ \A id \in ClientIds :
             (ret'.op = "delete_client" /\ ~HasClient(id)
                /\ delete_client(id))
             => Failed /\ TablesSame
       /\ \A id \in ClientIds, n \in Numbers :
             (ret'.op = "delete_phone"
                /\ ~(\E p \in phone : p.client_id = id /\ p.number = n)
                /\ delete_phone(id, n))
             => Failed /\ TablesSame]_vars

C8_Witness ==
    /\ ret.op = "delete_phone" /\ ret.status = "TypeError"
    /\ client # {} /\ phone # {}

\* C9: delete_phone(client_id, number) with at least one matching row removes
\* every row with that client_id and number, returns the id of a row it
\* removed, and leaves every other phone row and every client row as it was.
C9_DeletePhone ==
    [][\A id \in ClientIds, n \in Numbers :
          (ret'.op = "delete_phone"
             /\ (\E p \in phone : p.client_id = id /\ p.number = n)
             /\ delete_phone(id, n))
          => /\ phone' = {p \in phone : ~(p.client_id = id /\ p.number = n)}
             /\ ret'.status = "ok"
             /\ ret'.id \in {p.id : p \in phone \ phone'}
             /\ client' = client]_vars

C9_Witness ==
    /\ ret.op = "delete_phone" /\ ret.status = "ok"
    /\ phone # {} /\ ret.id \notin {p.id : p \in phone}

====
